---------------------------- MODULE Spec2Model ----------------------------
(***************************************************************************)
(* Model of the Figma watermark-detection pipeline:                        *)
(*   src/figma_pipeline.py      FigmaPipeline (scan, download, batches)    *)
(*   src/watermark_detection.py run_inference (scoring and result merge)   *)
(*   src/utils.py               directory housekeeping                     *)
(*   src/app.py                 the Streamlit caller                       *)
(*                                                                         *)
(* Five specifications share the module:                                   *)
(*   Spec       the application: runs started from app.py, batches,        *)
(*              concurrent downloads, detection, merge into result.json    *)
(*   SpecRerun  Spec and runs of the pipeline by callers that keep the     *)
(*              data of earlier runs                                       *)
(*   SpecScan   _get_figma_images on bounded document trees                *)
(*   SpecMerge  the merge step of run_inference on bounded result lists    *)
(*   SpecBatch  the orchestrator's loop on long reference lists while      *)
(*              every request fails                                        *)
(***************************************************************************)
EXTENDS Integers, Sequences, FiniteSets, TLC

(***************************************************************************)
(* Bounds of the model.                                                    *)
(***************************************************************************)
\* number of distinct image references a document may yield
MaxRefs == 2
\* largest batch size tried (app.py allows 1..50)
MaxBatchSize == 2
\* pipeline runs started one after the other
MaxRuns == 2
\* length of the result lists given to the merge step in SpecMerge
MaxLen == 2
\* nodes of a document tree in SpecScan, and nodes below the root of the
\* documents a run fetches
MaxNodes == 3
\* length of the reference list and largest batch size in SpecBatch
MaxListLen == 23
MaxChunk == 10

RefNames == <<"r1", "r2", "r3", "r4", "r5">>
Refs == {RefNames[k] : k \in 1..MaxRefs}

(***************************************************************************)
(* Paths.                                                                  *)
(***************************************************************************)
INPUT_DIR == "input_images"
OUTPUT_DIR == "output_images"

PathJoin(dir, file) == dir \o "/" \o file

\* figma_pipeline.py:112  os.path.join(self.input_dir, f"{image_ref}.png")
InputPath(image_ref) == PathJoin(INPUT_DIR, image_ref \o ".png")

\* watermark_detection.py:42-43
OutputPath(image_ref) == PathJoin(OUTPUT_DIR, image_ref \o ".png")

(***************************************************************************)
(* Sequence helpers.                                                       *)
(***************************************************************************)
Range(s) == {s[k] : k \in 1..Len(s)}

Min(a, b) == IF a < b THEN a ELSE b

\* Python slice s[lo:hi] with 0-based lo and exclusive hi
Slice(s, lo, hi) == SubSeq(s, lo + 1, Min(hi, Len(s)))

\* Python zip: pairs up to the shorter length
Zip(a, b) == [k \in 1..Min(Len(a), Len(b)) |-> <<a[k], b[k]>>]

NoDup(s) == \A a, b \in 1..Len(s) : s[a] = s[b] => a = b

\* every duplicate-free sequence over S of length at most n
DistinctSeqs(S, n) ==
    UNION {{s \in [1..m -> S] : NoDup(s)} : m \in 0..n}

AllSeqs(S, n) == UNION {[1..m -> S] : m \in 0..n}

(***************************************************************************)
(* Result merger: watermark_detection.py:73-92.                            *)
(***************************************************************************)
\* line 84: the reference ids already present in result.json
ExistingRefs(existing_results) ==
    {existing_results[k].imageRef : k \in 1..Len(existing_results)}

IsNewNoFilter(existing_results, result) == TRUE

\* line 85: the imageRef of a new result is not among them
IsNew(existing_results, result) ==
    result.imageRef \notin ExistingRefs(existing_results)

\* line 85: the new results whose imageRef is not yet recorded
UniqueNewResults(existing_results, watermark_status) ==
    SelectSeq(watermark_status, LAMBDA r : IsNew(existing_results, r))

MergeOverwrite(existing_results, watermark_status) ==
    SelectSeq(existing_results,
              LAMBDA e : e.imageRef \notin ExistingRefs(watermark_status))
        \o watermark_status

\* line 88: all_results = existing_results + unique_new_results
Merge(existing_results, watermark_status) ==
    existing_results \o UniqueNewResults(existing_results, watermark_status)

\* one entry of watermark_status (lines 47-51 and 58-62)
ResultEntry(image_ref, status) ==
    [image |-> OutputPath(image_ref), status |-> status, imageRef |-> image_ref]


(***************************************************************************)
(* State.                                                                  *)
(***************************************************************************)
VARIABLES
    pc,                 \* where the orchestrator stands
    terminal,           \* how the last run ended: "None", "Done" or "Failed"
    runs,               \* runs started so far
    image_refs,         \* the list _get_figma_images returned
    batch_size,         \* FigmaPipeline.batch_size
    i,                  \* loop offset of run_pipeline (line 284)
    batch,              \* image_refs[i:i+batch_size]
    tasks,              \* the download coroutines of the batch, in batch order
    downloaded_paths,   \* what _process_batch returned
    input_dir,          \* files in input_images
    output_dir,         \* files in output_images
    result_exists,      \* os.path.exists("result.json")
    result_json,        \* the list stored in result.json
    total_processed,    \* counters of run_pipeline (lines 280-282)
    total_failed,
    successful_batches,
    scored,             \* history of the current run: <<image path scored,
                        \* imageRef recorded>> of every entry built
    batches_done,       \* history: the batches of the current run, in order
    file_response,      \* the answer of the document API (line 181)
    mapping_exists,     \* os.path.exists("node_mappings.json")
    node_mappings,      \* the object stored in node_mappings.json
    result_corrupt,     \* result.json exists but does not hold valid JSON
    st_error,           \* the text of the last st.error call
    settled,            \* history of the current batch: the downloads in the
                        \* order they returned, each with the path returned
    detector_calls,     \* history: run_inference calls of the current run
    failed_images,      \* history of the current run: <<image path, imageRef>>
                        \* of every image whose scoring failed
    write_outcome,      \* history: what the write of result.json did in the
                        \* last run_inference call of the current batch
    current_progress,   \* what progress_bar shows (lines 276, 289-290, 332)
    status_container    \* the text of app.py's status_container

varsPipe == <<pc, terminal, runs, image_refs, batch_size, i, batch, tasks,
              downloaded_paths, input_dir, output_dir, result_exists,
              result_json, total_processed, total_failed, successful_batches,
              scored, batches_done, file_response, mapping_exists,
              node_mappings, result_corrupt, st_error, settled,
              detector_calls, failed_images, write_outcome,
              current_progress,
              status_container>>

(***************************************************************************)
(* Asset downloader: FigmaPipeline._download_image, lines 68-130.          *)
(***************************************************************************)
\* line 99: the statuses of the first response that are followed by hand
RedirectStatuses == {301, 302, 303, 307, 308}

\* the statuses the specification calls retryable
RetryableStatuses == {403, 429, 502, 503}

\* statuses a server may answer the first request with (allow_redirects=False)
FirstStatuses == {200, 404} \cup RedirectStatuses \cup RetryableStatuses

\* statuses the redirected request may end with (redirects followed by aiohttp)
FinalStatuses == {200, 404} \cup RetryableStatuses

None == "None"

\* the Content-Type headers a 200 response may carry, and the one the model
\* gives to every other response
ContentTypes == {"image/png", "image/jpeg", "image/gif", "text/html"}
ErrorContentType == "text/html"

\* the responses a server may give, given the statuses it may answer with
Responses(statuses) ==
    {[status |-> s, content_type |-> c] :
        s \in statuses \cap {200}, c \in ContentTypes}
    \cup {[status |-> s, content_type |-> ErrorContentType] :
            s \in statuses \ {200}}

\* a coroutine created at line 139; it runs up to its first request (line 92)
NewTask(image_ref) ==
    [ref |-> image_ref, at |-> "get", status |-> 0, raised |-> FALSE,
     attempts |-> 1, path |-> None, content_type |-> None]

\* the response object of lines 98 and 110, with the headers it carries
Received(task, resp) == [task EXCEPT !.content_type = resp.content_type]

GiveUpRetryTransient(task, status) ==
    IF status \in RetryableStatuses /\ task.attempts < 3
    THEN [task EXCEPT !.at = "get", !.attempts = @ + 1]
    ELSE [task EXCEPT !.at = "done", !.status = status, !.path = None]

GiveUpRetryAny(task, status) ==
    IF task.attempts < 3
    THEN [task EXCEPT !.at = "get", !.attempts = @ + 1]
    ELSE [task EXCEPT !.at = "done", !.status = status, !.path = None]

\* lines 118-125: any other status is logged and the coroutine returns None
GiveUp(task, status) ==
    [task EXCEPT !.at = "done", !.status = status, !.path = None]

\* lines 126-130: an exception is logged and the coroutine returns None
Caught(task) ==
    [task EXCEPT !.at = "done", !.raised = TRUE, !.path = None]

\* lines 99-104: a redirect status leads to the second request
AfterFirstResponse(task, status) ==
    IF status \in RedirectStatuses
    THEN [task EXCEPT !.at = "s3"]
    ELSE GiveUp(task, status)

AfterS3ResponseChecksType(task, status) ==
    IF status = 200 /\ task.content_type # ErrorContentType
    THEN [task EXCEPT !.at = "done", !.status = status,
                      !.path = InputPath(task.ref)]
    ELSE GiveUp(task, status)

\* lines 111-121: only a 200 of the redirected request is a success
AfterS3Response(task, status) ==
    IF status = 200
    THEN [task EXCEPT !.at = "done", !.status = status,
                      !.path = InputPath(task.ref)]
    ELSE GiveUp(task, status)

\* lines 112-114: the body is written to input_images/{image_ref}.png
FilesAfterS3(files, task, status) ==
    IF status = 200 THEN files \cup {InputPath(task.ref)} ELSE files

SuccessfulDownloadsReversed(ts) ==
    LET paths == [k \in 1..Len(ts) |-> ts[Len(ts) + 1 - k].path]
    IN  SelectSeq(paths, LAMBDA p : p # None)

\* line 143: the paths that are not None, in task order
SuccessfulDownloads(ts) ==
    LET paths == [k \in 1..Len(ts) |-> ts[k].path]
    IN  SelectSeq(paths, LAMBDA p : p # None)

(***************************************************************************)
(* Detector adapter: run_inference, watermark_detection.py:23-71.          *)
(***************************************************************************)
\* what scoring one image may do: a verdict; a failure before the entry is
\* built (image_enhancer returned None, line 34, or predict raised, line 39);
\* or a verdict whose entry is built before image.save raises (line 65)
Verdicts == {"watermark", "clean", "skipped", "watermark_unsaved",
             "clean_unsaved"}

\* lines 47 and 58: an entry is appended to watermark_status
EntryBuilt(v) == v # "skipped"

\* line 46: result.boxes is not empty
BoxesFound(v) == v \in {"watermark", "watermark_unsaved"}

\* line 65 returned
ImageSaved(v) == v \in {"watermark", "clean"}

\* line 30: zip(image_paths, image_refs), the k-th path with the k-th reference
Pairs(image_paths, refs) == Zip(image_paths, refs)

\* lines 29-71: the entries appended to watermark_status
WatermarkStatus(pairs, verdict) ==
    LET scoredAt == SelectSeq([k \in 1..Len(pairs) |-> k],
                              LAMBDA k : EntryBuilt(verdict[k]))
    IN  [n \in 1..Len(scoredAt) |->
            ResultEntry(pairs[scoredAt[n]][2], BoxesFound(verdict[scoredAt[n]]))]

\* the pairs <<path scored, imageRef recorded>> of those entries
ScoredPairs(pairs, verdict) ==
    {pairs[k] : k \in {j \in 1..Len(pairs) : EntryBuilt(verdict[j])}}

\* lines 34-36 and 68-71: the pairs whose scoring failed and was skipped
FailedPairs(pairs, verdict) ==
    {pairs[k] : k \in {j \in 1..Len(pairs) : ~ImageSaved(verdict[j])}}

\* line 65: the annotated images saved to output_images
SavedFiles(pairs, verdict) ==
    {OutputPath(pairs[k][2]) : k \in {j \in 1..Len(pairs) : ImageSaved(verdict[j])}}

\* lines 74-81: result.json as loaded, [] when the file does not exist or
\* does not parse
ExistingResults == IF result_exists /\ ~result_corrupt THEN result_json ELSE <<>>

(***************************************************************************)
(* utils.py.                                                               *)
(***************************************************************************)
\* clear_directory, lines 10-21: every file of the directory is unlinked
ClearedDirectory == {}

(***************************************************************************)
(* Merge step on its own: run_inference's read-modify-write of result.json *)
(* (lines 73-92) applied to bounded lists.                                 *)
(***************************************************************************)
VARIABLES
    stored,     \* result.json before the first merge (existing_results)
    incoming,   \* the new entries (watermark_status)
    previous,   \* result.json before the last merge
    merged,     \* result.json after the last merge (all_results)
    merges      \* "none", "once", "again" (same entries merged a second
                \* time) or "remerged" (the merged list merged into stored)

varsMerge == <<stored, incoming, previous, merged, merges>>

Statuses == {TRUE, FALSE}

\* the entries run_inference builds for the references of the model
Entries == {ResultEntry(r, st) : r \in Refs, st \in Statuses}

MergeIdle ==
    /\ stored = <<>>
    /\ incoming = <<>>
    /\ previous = <<>>
    /\ merged = <<>>
    /\ merges = "none"

InitMerge ==
    /\ stored \in AllSeqs(Entries, MaxLen)
    /\ incoming \in AllSeqs(Entries, MaxLen)
    /\ previous = <<>>
    /\ merged = <<>>
    /\ merges = "none"

\* lines 84-92 on existing_results = stored, watermark_status = incoming
MergeOnce ==
    /\ merges = "none"
    /\ previous' = stored
    /\ merged' = Merge(stored, incoming)
    /\ merges' = "once"
    /\ UNCHANGED <<stored, incoming>>

\* the same new entries merged again into the file the first merge wrote
MergeAgain ==
    /\ merges = "once"
    /\ previous' = merged
    /\ merged' = Merge(merged, incoming)
    /\ merges' = "again"
    /\ UNCHANGED <<stored, incoming>>

\* the merged list merged into the original list: merge(A, merge(A, B))
MergeMerged ==
    /\ merges = "once"
    /\ previous' = merged
    /\ merged' = Merge(stored, merged)
    /\ merges' = "remerged"
    /\ UNCHANGED <<stored, incoming>>

(***************************************************************************)
(* Document scanner: FigmaPipeline._get_figma_images, lines 188-257.       *)
(***************************************************************************)
VARIABLES
    document,             \* the node tree: node 1 is data['document']
    scanned,              \* whether _get_figma_images has returned
    image_ref_set,        \* the set image_refs of line 190
    image_to_nodes_map,   \* line 191: imageRef -> list of node entries
    unique_refs,          \* line 251: list(image_refs), the value returned
    scan_error            \* str(e) of the exception the scan raised, or None

varsScan ==
    <<document, scanned, image_ref_set, image_to_nodes_map, unique_refs, scan_error>>

\* line 198
EligibleTypes == {"FRAME", "COMPONENT", "INSTANCE", "IMAGE", "RECTANGLE"}

ImageFill(ref) == [type |-> "IMAGE", imageRef |-> ref]
ImageFillNoRef == [type |-> "IMAGE"]
SolidFill == [type |-> "SOLID"]

\* node.get('name', 'unnamed'), lines 194 and 217
NodeName(node) == IF "name" \in DOMAIN node THEN node.name ELSE "unnamed"

\* node.get('type'), line 198: None when the key is absent
NodeType(node) == IF "type" \in DOMAIN node THEN node.type ELSE None

\* fill.get('type'), line 201
FillType(fill) == IF "type" \in DOMAIN fill THEN fill.type ELSE None

\* str(KeyError('id')): node['id'] of line 216 on a node without the key
MissingIdText == "'id'"

\* node.get('fills'), line 199: absent or empty is falsy
HasFills(node) == "fills" \in DOMAIN node /\ node.fills # <<>>

\* lines 212-219: the entry is appended to the list kept under image_ref
AddEntry(map, image_ref, entry) ==
    [r \in DOMAIN map \cup {image_ref} |->
        IF r = image_ref
        THEN Append(IF image_ref \in DOMAIN map THEN map[image_ref] ELSE <<>>, entry)
        ELSE map[r]]

\* lines 207-219: an IMAGE fill that carries an imageRef is recorded; the
\* entry is built with node['id'], which raises KeyError when the node has
\* no id (the reference is in the set by then, line 209)
Record(node, fill, current_path, acc) ==
    IF "imageRef" \in DOMAIN fill
    THEN IF "id" \in DOMAIN node
         THEN [refs |-> acc.refs \cup {fill.imageRef},
               map  |-> AddEntry(acc.map, fill.imageRef,
                                 [node_id |-> node.id, name |-> NodeName(node),
                                  path |-> current_path]),
               raised |-> FALSE]
         ELSE [refs |-> acc.refs \cup {fill.imageRef}, map |-> acc.map,
               raised |-> TRUE]
    ELSE acc

RECURSIVE ScanFills(_, _, _, _)

AfterImageFillContinue(node, rest, current_path, acc) ==
    ScanFills(node, rest, current_path, acc)

\* line 220: break, the fills after the first IMAGE fill are not looked at
AfterImageFill(node, rest, current_path, acc) == acc

\* lines 200-220: the loop over the fills of one node
ScanFills(node, fills, current_path, acc) ==
    IF fills = <<>>
    THEN acc
    ELSE IF FillType(Head(fills)) = "IMAGE"
         THEN AfterImageFill(node, Tail(fills), current_path,
                             Record(node, Head(fills), current_path, acc))
         ELSE ScanFills(node, Tail(fills), current_path, acc)

InspectedAnyType(node) == HasFills(node)

\* lines 198-199: only nodes of these types that have fills are inspected
Inspected(node) == NodeType(node) \in EligibleTypes /\ HasFills(node)

\* lines 198-220
VisitNode(node, current_path, acc) ==
    IF Inspected(node) THEN ScanFills(node, node.fills, current_path, acc) ELSE acc

\* lines 223-225: the children in the given order, none when the key is absent
ChildrenOf(node) == IF "children" \in DOMAIN node THEN node.children ELSE <<>>

RECURSIVE ExtractImageNodes(_, _, _, _)
RECURSIVE ExtractChildren(_, _, _, _)

\* lines 193-225: extract_image_nodes(node, path), depth first; an exception
\* ends the walk
ExtractImageNodes(doc, n, path, acc) ==
    LET current_path == path \o "/" \o NodeName(doc[n])
        visited == VisitNode(doc[n], current_path, acc)
    IN  IF visited.raised
        THEN visited
        ELSE ExtractChildren(doc, ChildrenOf(doc[n]), current_path, visited)

ExtractChildren(doc, kids, current_path, acc) ==
    IF kids = <<>> \/ acc.raised
    THEN acc
    ELSE ExtractChildren(doc, Tail(kids), current_path,
                         ExtractImageNodes(doc, Head(kids), current_path, acc))

\* lines 190-191
EmptyScan == [refs |-> {}, map |-> <<>>, raised |-> FALSE]

\* line 251: list(set) lists the elements once each, in an order of its own
Orders(S) == {s \in [1..Cardinality(S) -> S] : Range(s) = S}

(***************************************************************************)
(* The documents given to the scanner.                                     *)
(***************************************************************************)
NodeIds == <<"n1", "n2", "n3", "n4", "n5">>
NodeNames == <<"Page", "Hero", "Logo", "Card", "Icon">>

\* node types: two the scanner inspects and one it does not
NodeTypes == {"FRAME", "VECTOR"}

\* the fills of a node
FillLists ==
    { <<>>,
      <<ImageFill("r1")>>,
      <<ImageFill("r2")>>,
      <<SolidFill, ImageFill("r1")>>,
      <<ImageFill("r1"), ImageFill("r2")>>,
      <<ImageFillNoRef, ImageFill("r2")>> }

\* parent[k] < k: node 1 is the root and every other node hangs below an
\* earlier one
ParentMaps(n) == {p \in [2..n -> 1..n] : \A k \in 2..n : p[k] < k}

KidsOf(n, p, k) == SelectSeq([j \in 1..n |-> j], LAMBDA j : j > 1 /\ p[j] = k)

BuildDocument(n, p, types, fills) ==
    [k \in 1..n |->
        [id |-> NodeIds[k], name |-> NodeNames[k], type |-> types[k],
         fills |-> fills[k], children |-> KidsOf(n, p, k)]]

ScanIdle ==
    /\ document = <<>>
    /\ scanned = FALSE
    /\ image_ref_set = {}
    /\ image_to_nodes_map = <<>>
    /\ unique_refs = <<>>
    /\ scan_error = None

InitScan ==
    /\ \E n \in 1..MaxNodes :
          \E p \in ParentMaps(n) :
             \E types \in [1..n -> NodeTypes] :
                \E fills \in [1..n -> FillLists] :
                   document = BuildDocument(n, p, types, fills)
    /\ scanned = FALSE
    /\ image_ref_set = {}
    /\ image_to_nodes_map = <<>>
    /\ unique_refs = <<>>
    /\ scan_error = None

(***************************************************************************)
(* Malformed documents: nodes that lack a key, fills that lack their type. *)
(***************************************************************************)
\* the keys a node may lack (one at most per node in the model)
NodeKeys == {"id", "name", "type", "fills", "children"}

\* the node as the document carries it when the key is absent
Without(node, key) == [f \in DOMAIN node \ {key} |-> node[f]]

\* a fill that has a reference id and no type
UntypedFill(ref) == [imageRef |-> ref]

MalformedFillLists ==
    { <<>>,
      <<ImageFill("r1")>>,
      <<ImageFill("r2")>>,
      <<UntypedFill("r1")>> }

\* every node is a FRAME with all its keys but, at most, one; only a node
\* without children lacks the children key
InitMalformed ==
    /\ \E n \in 1..MaxNodes :
          \E p \in ParentMaps(n) :
             \E fills \in [1..n -> MalformedFillLists] :
                \E absent \in [1..n -> NodeKeys \cup {None}] :
                   /\ \A k \in 1..n :
                         absent[k] = "children" => KidsOf(n, p, k) = <<>>
                   /\ document =
                         [k \in 1..n |->
                            Without(BuildDocument(n, p, [j \in 1..n |-> "FRAME"],
                                                  fills)[k], absent[k])]
    /\ scanned = FALSE
    /\ image_ref_set = {}
    /\ image_to_nodes_map = <<>>
    /\ unique_refs = <<>>
    /\ scan_error = None

\* lines 188-257 once the document was fetched: the references and the
\* mapping are returned, or the exception of the walk leaves the function
Scan ==
    /\ ~scanned
    /\ scan_error = None
    /\ LET acc == ExtractImageNodes(document, 1, "", EmptyScan)
       IN  IF acc.raised
           THEN /\ scan_error' = MissingIdText
                /\ UNCHANGED <<scanned, image_ref_set, image_to_nodes_map, unique_refs>>
           ELSE /\ image_ref_set' = acc.refs
                /\ image_to_nodes_map' = acc.map
                /\ \E order \in Orders(acc.refs) : unique_refs' = order
                /\ scanned' = TRUE
                /\ UNCHANGED scan_error
    /\ UNCHANGED document


(***************************************************************************)
(* The documents the document API answers a run with, and its error        *)
(* answers.                                                                *)
(***************************************************************************)
\* a node that carries one IMAGE fill
SingleImageFills == {<<ImageFill(r)>> : r \in Refs}

\* the root is the DOCUMENT node, which has no fills; its children are up to
\* MaxNodes nodes, each with one IMAGE fill and of a type the scanner inspects
\* or of one it does not
BelowRoot(n) == [k \in 2..n |-> 1]

PipelineDocuments ==
    UNION {{BuildDocument(n, BelowRoot(n),
                [k \in 1..n |-> IF k = 1 THEN "DOCUMENT" ELSE types[k]],
                [k \in 1..n |-> IF k = 1 THEN <<>> ELSE fills[k]]) :
              types \in [2..n -> NodeTypes],
              fills \in [2..n -> SingleImageFills]} : n \in 1..(MaxNodes + 1)}

\* a document whose only frame carries an image and has no id
DocumentWithoutId ==
    [k \in 1..2 |->
        IF k = 1
        THEN BuildDocument(2, BelowRoot(2), <<"DOCUMENT", "FRAME">>,
                           <<<<>>, <<ImageFill("r1")>>>>)[1]
        ELSE Without(BuildDocument(2, BelowRoot(2), <<"DOCUMENT", "FRAME">>,
                                   <<<<>>, <<ImageFill("r1")>>>>)[2], "id")]

\* line 181: file_response of a fetch that succeeded
OkResponse(doc) == [status_code |-> 200, document |-> doc]

\* line 183: answers of the document API with another status
DocErrorResponses ==
    {[status_code |-> 403, text |-> "Forbidden"],
     [status_code |-> 404, text |-> "Not found"]}

NoResponse == [status_code |-> 0]

(***************************************************************************)
(* Messages.                                                               *)
(***************************************************************************)
\* app.py:132
ConfigErrorText == "Please provide both Figma File Key and Access Token"

FetchErrorTextNoBody(resp) ==
    "Failed to get Figma file: " \o ToString(resp.status_code)

\* figma_pipeline.py:186
FetchErrorText(resp) ==
    "Failed to get Figma file: " \o ToString(resp.status_code) \o " - " \o resp.text

\* figma_pipeline.py:339
PipelineErrorText(e) == "Pipeline error: " \o e

\* app.py:160 and 170
StartingText == "Starting pipeline..."
CompletedText == "Pipeline completed successfully!"

\* app.py:169-170: run_pipeline returned to the application without raising
\* and the status is set; another caller has no status to set. What the
\* results view shows after line 170 is not part of the model.
ReturnedToCaller(status) ==
    IF status = StartingText THEN CompletedText ELSE status

\* str(e) of the ZeroDivisionError of line 327 and of the JSONDecodeError of
\* line 313 on a file without a JSON value
ZeroDivisionText == "division by zero"
JSONDecodeText == "Expecting value: line 1 column 1 (char 0)"

(***************************************************************************)
(* Orchestrator: FigmaPipeline.run_pipeline, lines 259-339.                *)
(***************************************************************************)
\* no progress bar on the page
NoProgress == [shown |-> FALSE, batch_num |-> 0, total_batches |-> 0]

\* lines 276 and 288-289: the fraction batch_num / total_batches given to
\* progress_bar, kept as its two terms
Progress(batch_num, total_batches) ==
    [shown |-> TRUE, batch_num |-> batch_num, total_batches |-> total_batches]

\* line 273
TotalBatches(n, b) == (n + b - 1) \div b

BatchAtOverlapping(refs, offset, b) == Slice(refs, offset, offset + b + 1)

BatchAtShort(refs, offset, b) == Slice(refs, offset, offset + b - 1)

\* lines 285-286
BatchAt(refs, offset, b) == Slice(refs, offset, offset + b)

\* line 314: entries of result.json whose imageRef is in the batch
ProcessedInBatch(results, refs) ==
    Cardinality({k \in 1..Len(results) : results[k].imageRef \in Range(refs)})

\* app.py:19-23: the session starts with clear_all_data and setup_directories
InitPipe ==
    /\ pc = "Idle"
    /\ terminal = "None"
    /\ runs = 0
    /\ image_refs = <<>>
    /\ batch_size = 1
    /\ i = 0
    /\ batch = <<>>
    /\ tasks = <<>>
    /\ downloaded_paths = <<>>
    /\ input_dir = {}
    /\ output_dir = {}
    /\ result_exists = FALSE
    /\ result_json = <<>>
    /\ total_processed = 0
    /\ total_failed = 0
    /\ successful_batches = 0
    /\ scored = {}
    /\ batches_done = <<>>
    /\ file_response = NoResponse
    /\ mapping_exists = FALSE
    /\ node_mappings = <<>>
    /\ result_corrupt = FALSE
    /\ st_error = None
    /\ settled = <<>>
    /\ detector_calls = 0
    /\ failed_images = {}
    /\ write_outcome = None
    /\ current_progress = NoProgress
    /\ status_container = None

AppRunMissingConfigClears(figma_file_key, figma_access_token) ==
    /\ pc = "Idle"
    /\ figma_file_key = "" \/ figma_access_token = ""
    /\ input_dir' = ClearedDirectory
    /\ output_dir' = ClearedDirectory
    /\ result_exists' = FALSE
    /\ result_corrupt' = FALSE
    /\ result_json' = <<>>
    /\ mapping_exists' = FALSE
    /\ node_mappings' = <<>>
    /\ st_error' = ConfigErrorText
    /\ current_progress' = NoProgress
    /\ status_container' = None
    /\ UNCHANGED <<pc, terminal, runs, image_refs, batch_size, i, batch,
                   tasks, downloaded_paths, total_processed, total_failed,
                   successful_batches, scored, batches_done, file_response,
                   settled, detector_calls, failed_images, write_outcome>>

\* app.py:130-133: the Run Pipeline button while the file key or the access
\* token is empty: st.error and return
AppRunMissingConfig(figma_file_key, figma_access_token) ==
    /\ pc = "Idle"
    /\ figma_file_key = "" \/ figma_access_token = ""
    /\ st_error' = ConfigErrorText
    /\ current_progress' = NoProgress
    /\ status_container' = None
    /\ UNCHANGED <<pc, terminal, runs, image_refs, batch_size, i, batch,
                   tasks, downloaded_paths, input_dir, output_dir,
                   result_exists, result_json, total_processed, total_failed,
                   successful_batches, scored, batches_done, file_response,
                   mapping_exists, node_mappings, result_corrupt, settled,
                   detector_calls, failed_images, write_outcome>>

\* app.py:128-168: the Run Pipeline button with both credentials given:
\* clear_all_data, setup_directories, FigmaPipeline(...), run_pipeline() up to
\* the request of line 181
AppRun(b) ==
    /\ pc = "Idle"
    /\ runs < MaxRuns
    /\ runs' = runs + 1
    /\ batch_size' = b
    /\ input_dir' = ClearedDirectory
    /\ output_dir' = ClearedDirectory
    /\ result_exists' = FALSE
    /\ result_corrupt' = FALSE
    /\ result_json' = <<>>
    /\ mapping_exists' = FALSE
    /\ node_mappings' = <<>>
    /\ st_error' = None
    /\ write_outcome' = None
    /\ current_progress' = NoProgress
    /\ status_container' = StartingText
    /\ terminal' = "None"
    /\ pc' = "Scanning"
    /\ UNCHANGED <<image_refs, i, batch, tasks, downloaded_paths,
                   total_processed, total_failed, successful_batches, scored,
                   batches_done, file_response, settled, detector_calls,
                   failed_images>>

\* figma_pipeline.py:15-24 and 342-353: a pipeline constructed and run by a
\* caller that does not clear the data first (setup_directories only)
DirectRun(b) ==
    /\ pc = "Idle"
    /\ runs < MaxRuns
    /\ runs' = runs + 1
    /\ batch_size' = b
    /\ st_error' = None
    /\ write_outcome' = None
    /\ current_progress' = NoProgress
    /\ status_container' = None
    /\ terminal' = "None"
    /\ pc' = "Scanning"
    /\ UNCHANGED <<image_refs, i, batch, tasks, downloaded_paths, input_dir,
                   output_dir, result_exists, result_json, total_processed,
                   total_failed, successful_batches, scored, batches_done,
                   file_response, mapping_exists, node_mappings,
                   result_corrupt, settled, detector_calls, failed_images>>

\* app.py:88-97: the Clear Results button (utils.clear_all_data), then the
\* script is run again
ClearResults ==
    /\ pc = "Idle"
    /\ input_dir' = ClearedDirectory
    /\ output_dir' = ClearedDirectory
    /\ result_exists' = FALSE
    /\ result_corrupt' = FALSE
    /\ result_json' = <<>>
    /\ mapping_exists' = FALSE
    /\ node_mappings' = <<>>
    /\ st_error' = None
    /\ write_outcome' = None
    /\ current_progress' = NoProgress
    /\ status_container' = None
    /\ UNCHANGED <<pc, terminal, runs, image_refs, batch_size, i, batch,
                   tasks, downloaded_paths, total_processed, total_failed,
                   successful_batches, scored, batches_done, file_response,
                   settled, detector_calls, failed_images>>

\* line 181: the document API answers
DocumentResponse(resp) ==
    /\ pc = "Scanning"
    /\ file_response' = resp
    /\ pc' = "Fetched"
    /\ UNCHANGED <<terminal, runs, image_refs, batch_size, i, batch, tasks,
                   downloaded_paths, input_dir, output_dir, result_exists,
                   result_json, total_processed, total_failed,
                   successful_batches, scored, batches_done, mapping_exists,
                   node_mappings, result_corrupt, st_error, settled,
                   detector_calls, failed_images, write_outcome,
                   current_progress, status_container>>

\* lines 183-186 and 335-339: the answer is not a 200, the scan raises and
\* run_pipeline reports the pipeline error and returns
FetchFailed ==
    /\ pc = "Fetched"
    /\ file_response.status_code # 200
    /\ st_error' = PipelineErrorText(FetchErrorText(file_response))
    /\ terminal' = "Failed"
    /\ pc' = "Idle"
    /\ batch_size' = 1
    /\ file_response' = NoResponse
    /\ status_container' = ReturnedToCaller(status_container)
    /\ UNCHANGED <<runs, image_refs, i, batch, tasks, downloaded_paths,
                   input_dir, output_dir, result_exists, result_json,
                   total_processed, total_failed, successful_batches, scored,
                   batches_done, mapping_exists, node_mappings,
                   result_corrupt, settled, detector_calls, failed_images,
                   write_outcome, current_progress>>

\* lines 230-282: _get_figma_images found the references and the mapping acc
\* in the tree: node_mappings.json is written, the distinct references are
\* returned in the order of list(set), which is any order, and the counters
\* are reset
ScanReturned(order, acc) ==
    /\ pc = "Fetched"
    /\ file_response.status_code = 200
    /\ ~acc.raised
    /\ Range(order) = acc.refs
    /\ Len(order) = Cardinality(acc.refs)
    /\ mapping_exists' = TRUE
    /\ node_mappings' = acc.map
    /\ image_refs' = order
    /\ file_response' = NoResponse
    /\ i' = 0
    /\ total_processed' = 0
    /\ total_failed' = 0
    /\ successful_batches' = 0
    /\ batches_done' = <<>>
    /\ batch' = <<>>
    /\ tasks' = <<>>
    /\ downloaded_paths' = <<>>
    /\ current_progress' = Progress(0, TotalBatches(Len(order), batch_size))
    /\ pc' = "Loop"
    /\ UNCHANGED <<terminal, runs, batch_size, input_dir, output_dir,
                   result_exists, result_json, scored, result_corrupt,
                   st_error, settled, detector_calls, failed_images,
                   write_outcome, status_container>>

\* lines 216, 228 and 335-339: the walk raises, nothing is written and
\* run_pipeline reports the pipeline error and returns
ScanRaised ==
    /\ pc = "Fetched"
    /\ file_response.status_code = 200
    /\ ExtractImageNodes(file_response.document, 1, "", EmptyScan).raised
    /\ st_error' = PipelineErrorText(MissingIdText)
    /\ terminal' = "Failed"
    /\ pc' = "Idle"
    /\ batch_size' = 1
    /\ file_response' = NoResponse
    /\ status_container' = ReturnedToCaller(status_container)
    /\ UNCHANGED <<runs, image_refs, i, batch, tasks, downloaded_paths,
                   input_dir, output_dir, result_exists, result_json,
                   total_processed, total_failed, successful_batches, scored,
                   batches_done, mapping_exists, node_mappings,
                   result_corrupt, settled, detector_calls, failed_images,
                   write_outcome, current_progress>>

\* lines 188-228 and 268: the tree of the answer is walked
Scanned(order) ==
    ScanReturned(order,
                 ExtractImageNodes(file_response.document, 1, "", EmptyScan))

\* lines 284-300 and 132-142: the next chunk is cut, its downloads are created
\* and gathered
StartBatch ==
    /\ pc = "Loop"
    /\ i < Len(image_refs)
    /\ batch' = BatchAt(image_refs, i, batch_size)
    /\ tasks' = [k \in 1..Len(batch') |-> NewTask(batch'[k])]
    /\ batches_done' = Append(batches_done, batch')
    /\ downloaded_paths' = <<>>
    /\ settled' = <<>>
    /\ write_outcome' = None
    /\ current_progress' =
          Progress(i \div batch_size + 1,
                   TotalBatches(Len(image_refs), batch_size))
    /\ pc' = "Downloading"
    /\ UNCHANGED <<terminal, runs, image_refs, batch_size, i, input_dir,
                   output_dir, result_exists, result_json, total_processed,
                   total_failed, successful_batches, scored, file_response,
                   mapping_exists, node_mappings, result_corrupt, st_error,
                   detector_calls, failed_images, status_container>>

\* the value a download returned, noted when it returns
Return(k, task) == [task |-> k, path |-> task.path]

\* lines 92-99, 122-125: the first response of download k arrives
FirstResponse(k, resp) ==
    /\ pc = "Downloading"
    /\ tasks[k].at = "get"
    /\ LET task == AfterFirstResponse(Received(tasks[k], resp), resp.status)
       IN  /\ tasks' = [tasks EXCEPT ![k] = task]
           /\ settled' = IF task.at = "done"
                         THEN Append(settled, Return(k, task))
                         ELSE settled
    /\ UNCHANGED <<pc, terminal, runs, image_refs, batch_size, i, batch,
                   downloaded_paths, input_dir, output_dir, result_exists,
                   result_json, total_processed, total_failed,
                   successful_batches, scored, batches_done, file_response,
                   mapping_exists, node_mappings, result_corrupt, st_error,
                   detector_calls, failed_images, write_outcome,
                   current_progress, status_container>>

\* lines 105-121: the response of the redirected request of download k arrives
S3Response(k, resp) ==
    /\ pc = "Downloading"
    /\ tasks[k].at = "s3"
    /\ LET task == AfterS3Response(Received(tasks[k], resp), resp.status)
       IN  /\ tasks' = [tasks EXCEPT ![k] = task]
           /\ settled' = Append(settled, Return(k, task))
    /\ input_dir' = FilesAfterS3(input_dir, tasks[k], resp.status)
    /\ UNCHANGED <<pc, terminal, runs, image_refs, batch_size, i, batch,
                   downloaded_paths, output_dir, result_exists, result_json,
                   total_processed, total_failed, successful_batches, scored,
                   batches_done, file_response, mapping_exists,
                   node_mappings, result_corrupt, st_error, detector_calls,
                   failed_images, write_outcome, current_progress,
                   status_container>>

RequestRaisesCancelsSiblings(k) ==
    /\ pc = "Downloading"
    /\ tasks[k].at \in {"get", "s3"}
    /\ tasks' = [j \in 1..Len(tasks) |->
                    IF tasks[j].at = "done" THEN tasks[j] ELSE Caught(tasks[j])]
    /\ settled' = Append(settled, Return(k, Caught(tasks[k])))
    /\ UNCHANGED <<pc, terminal, runs, image_refs, batch_size, i, batch,
                   downloaded_paths, input_dir, output_dir, result_exists,
                   result_json, total_processed, total_failed,
                   successful_batches, scored, batches_done, file_response,
                   mapping_exists, node_mappings, result_corrupt, st_error,
                   detector_calls, failed_images, write_outcome,
                   current_progress, status_container>>

\* lines 126-130: a request of download k raises (timeout, connection reset)
RequestRaises(k) ==
    /\ pc = "Downloading"
    /\ tasks[k].at \in {"get", "s3"}
    /\ tasks' = [tasks EXCEPT ![k] = Caught(tasks[k])]
    /\ settled' = Append(settled, Return(k, Caught(tasks[k])))
    /\ UNCHANGED <<pc, terminal, runs, image_refs, batch_size, i, batch,
                   downloaded_paths, input_dir, output_dir, result_exists,
                   result_json, total_processed, total_failed,
                   successful_batches, scored, batches_done, file_response,
                   mapping_exists, node_mappings, result_corrupt, st_error,
                   detector_calls, failed_images, write_outcome,
                   current_progress, status_container>>

\* lines 126-130 in every download of the batch: the network is down and each
\* request raises
AllRequestsRaise ==
    /\ pc = "Downloading"
    /\ \A k \in 1..Len(tasks) : tasks[k].at = "get"
    /\ tasks' = [k \in 1..Len(tasks) |-> Caught(tasks[k])]
    /\ settled' = settled \o [k \in 1..Len(tasks) |-> Return(k, Caught(tasks[k]))]
    /\ UNCHANGED <<pc, terminal, runs, image_refs, batch_size, i, batch,
                   downloaded_paths, input_dir, output_dir, result_exists,
                   result_json, total_processed, total_failed,
                   successful_batches, scored, batches_done, file_response,
                   mapping_exists, node_mappings, result_corrupt, st_error,
                   detector_calls, failed_images, write_outcome,
                   current_progress, status_container>>

GatheredEarly ==
    /\ pc = "Downloading"
    /\ downloaded_paths' = SuccessfulDownloads(tasks)
    /\ tasks' = SelectSeq(tasks, LAMBDA task : task.at # "done")
    /\ pc' = "Downloaded"
    /\ UNCHANGED <<terminal, runs, image_refs, batch_size, i, batch,
                   input_dir, output_dir, result_exists, result_json,
                   total_processed, total_failed, successful_batches, scored,
                   batches_done, file_response, mapping_exists,
                   node_mappings, result_corrupt, st_error, settled,
                   detector_calls, failed_images, write_outcome,
                   current_progress, status_container>>

\* lines 142-164 and 300: gather returns once every download has returned;
\* _process_batch returns the successful paths and its coroutines are gone
Gathered ==
    /\ pc = "Downloading"
    /\ \A k \in 1..Len(tasks) : tasks[k].at = "done"
    /\ downloaded_paths' = SuccessfulDownloads(tasks)
    /\ tasks' = <<>>
    /\ pc' = "Downloaded"
    /\ UNCHANGED <<terminal, runs, image_refs, batch_size, i, batch,
                   input_dir, output_dir, result_exists, result_json,
                   total_processed, total_failed, successful_batches, scored,
                   batches_done, file_response, mapping_exists,
                   node_mappings, result_corrupt, st_error, settled,
                   detector_calls, failed_images, write_outcome,
                   current_progress, status_container>>

SkipDetectionBreaks ==
    /\ pc = "Downloaded"
    /\ downloaded_paths = <<>>
    /\ i' = Len(image_refs)
    /\ settled' = <<>>
    /\ pc' = "Loop"
    /\ UNCHANGED <<terminal, runs, image_refs, batch_size, batch, tasks,
                   downloaded_paths, input_dir, output_dir, result_exists,
                   result_json, total_processed, total_failed,
                   successful_batches, scored, batches_done, file_response,
                   mapping_exists, node_mappings, result_corrupt, st_error,
                   detector_calls, failed_images, write_outcome,
                   current_progress, status_container>>

\* line 302 false: nothing was downloaded, the loop goes on (line 284)
SkipDetection ==
    /\ pc = "Downloaded"
    /\ downloaded_paths = <<>>
    /\ i' = i + batch_size
    /\ settled' = <<>>
    /\ pc' = "Loop"
    /\ UNCHANGED <<terminal, runs, image_refs, batch_size, batch, tasks,
                   downloaded_paths, input_dir, output_dir, result_exists,
                   result_json, total_processed, total_failed,
                   successful_batches, scored, batches_done, file_response,
                   mapping_exists, node_mappings, result_corrupt, st_error,
                   detector_calls, failed_images, write_outcome,
                   current_progress, status_container>>

\* what the write of lines 91-92 may do: succeed, fail at open (the file is
\* left as it was) or fail after open(..., "w") emptied the file
WriteOutcomes == {"written", "open_failed", "truncated"}

\* result.json after lines 91-92
ResultFileAfter(write, all_results) ==
    CASE write = "written" ->
            [exists |-> TRUE, corrupt |-> FALSE, json |-> all_results]
      [] write = "open_failed" ->
            [exists |-> result_exists, corrupt |-> result_corrupt,
             json |-> result_json]
      [] write = "truncated" ->
            [exists |-> TRUE, corrupt |-> TRUE, json |-> <<>>]

\* lines 302-317: run_inference(downloaded_paths, batch) scores, merges and
\* writes result.json, swallowing a failure of the write (lines 97-99); the
\* counters are then updated from the file, and a file that does not parse
\* makes line 313 raise, which lines 335-339 report before run_pipeline
\* returns
Detect(verdict, write) ==
    /\ pc = "Downloaded"
    /\ downloaded_paths # <<>>
    /\ LET pairs == Pairs(downloaded_paths, batch)
           watermark_status == WatermarkStatus(pairs, verdict)
           all_results == Merge(ExistingResults, watermark_status)
           file == ResultFileAfter(write, all_results)
           processed_in_batch == ProcessedInBatch(file.json, batch)
       IN  /\ output_dir' = output_dir \cup SavedFiles(pairs, verdict)
           /\ write_outcome' = write
           /\ result_exists' = file.exists
           /\ result_corrupt' = file.corrupt
           /\ result_json' = file.json
           /\ IF file.exists /\ file.corrupt
              THEN /\ st_error' = PipelineErrorText(JSONDecodeText)
                   /\ terminal' = "Failed"
                   /\ pc' = "Idle"
                   /\ image_refs' = <<>>
                   /\ i' = 0
                   /\ batch' = <<>>
                   /\ downloaded_paths' = <<>>
                   /\ total_processed' = 0
                   /\ total_failed' = 0
                   /\ successful_batches' = 0
                   /\ batches_done' = <<>>
                   /\ batch_size' = 1
                   /\ scored' = {}
                   /\ failed_images' = {}
                   /\ detector_calls' = 0
                   /\ status_container' = ReturnedToCaller(status_container)
              ELSE /\ scored' = scored \cup ScoredPairs(pairs, verdict)
                   /\ failed_images' =
                         failed_images \cup FailedPairs(pairs, verdict)
                   /\ detector_calls' = detector_calls + 1
                   /\ total_processed' =
                         IF file.exists THEN total_processed + processed_in_batch
                                        ELSE total_processed
                   /\ total_failed' =
                         IF file.exists
                         THEN total_failed + (Len(batch) - processed_in_batch)
                         ELSE total_failed
                   /\ successful_batches' =
                         IF file.exists THEN successful_batches + 1
                                        ELSE successful_batches
                   /\ i' = i + batch_size
                   /\ pc' = "Loop"
                   /\ UNCHANGED <<st_error, terminal, image_refs, batch,
                                  downloaded_paths, batches_done, batch_size,
                                  status_container>>
    /\ settled' = <<>>
    /\ UNCHANGED <<runs, tasks, input_dir, file_response, mapping_exists,
                   node_mappings, current_progress>>

\* lines 322-333: the loop is over and the summary is logged; the success rate
\* of line 327 divides by total_images and raises when there is no image,
\* which lines 335-339 report as a pipeline error; run_pipeline returns and
\* its locals are gone
Summarize ==
    /\ pc = "Loop"
    /\ i >= Len(image_refs)
    /\ terminal' = IF Len(image_refs) = 0 THEN "Failed" ELSE "Done"
    /\ st_error' = IF Len(image_refs) = 0
                   THEN PipelineErrorText(ZeroDivisionText)
                   ELSE st_error
    /\ pc' = "Idle"
    /\ image_refs' = <<>>
    /\ i' = 0
    /\ batch' = <<>>
    /\ downloaded_paths' = <<>>
    /\ total_processed' = 0
    /\ total_failed' = 0
    /\ successful_batches' = 0
    /\ batches_done' = <<>>
    /\ batch_size' = 1
    /\ scored' = {}
    /\ failed_images' = {}
    /\ detector_calls' = 0
    /\ write_outcome' = None
    /\ current_progress' = IF Len(image_refs) = 0 THEN current_progress
                                                  ELSE NoProgress
    /\ status_container' = ReturnedToCaller(status_container)
    /\ UNCHANGED <<runs, tasks, input_dir, output_dir, result_exists,
                   result_json, file_response, mapping_exists, node_mappings,
                   result_corrupt, settled>>

(***************************************************************************)
(* Specifications.                                                         *)
(***************************************************************************)
vars == <<varsPipe, varsMerge, varsScan>>

Init == InitPipe /\ MergeIdle /\ ScanIdle

Next ==
    \/ \E figma_file_key, figma_access_token \in {"", "given"} :
            AppRunMissingConfig(figma_file_key, figma_access_token)
                /\ UNCHANGED <<varsMerge, varsScan>>
    \/ \E b \in 1..MaxBatchSize : AppRun(b) /\ UNCHANGED <<varsMerge, varsScan>>
    \/ ClearResults /\ UNCHANGED <<varsMerge, varsScan>>
    \/ \E doc \in PipelineDocuments \cup {DocumentWithoutId} :
            DocumentResponse(OkResponse(doc)) /\ UNCHANGED <<varsMerge, varsScan>>
    \/ \E resp \in DocErrorResponses :
            DocumentResponse(resp) /\ UNCHANGED <<varsMerge, varsScan>>
    \/ FetchFailed /\ UNCHANGED <<varsMerge, varsScan>>
    \/ \E order \in DistinctSeqs(Refs, MaxRefs) :
            Scanned(order) /\ UNCHANGED <<varsMerge, varsScan>>
    \/ ScanRaised /\ UNCHANGED <<varsMerge, varsScan>>
    \/ StartBatch /\ UNCHANGED <<varsMerge, varsScan>>
    \/ \E k \in 1..Len(tasks) : \E resp \in Responses(FirstStatuses) :
            FirstResponse(k, resp) /\ UNCHANGED <<varsMerge, varsScan>>
    \/ \E k \in 1..Len(tasks) : \E resp \in Responses(FinalStatuses) :
            S3Response(k, resp) /\ UNCHANGED <<varsMerge, varsScan>>
    \/ \E k \in 1..Len(tasks) : RequestRaises(k) /\ UNCHANGED <<varsMerge, varsScan>>
    \/ Gathered /\ UNCHANGED <<varsMerge, varsScan>>
    \/ SkipDetection /\ UNCHANGED <<varsMerge, varsScan>>
    \/ \E verdict \in [1..Min(Len(downloaded_paths), Len(batch)) -> Verdicts] :
          \E write \in WriteOutcomes :
            Detect(verdict, write) /\ UNCHANGED <<varsMerge, varsScan>>
    \/ Summarize /\ UNCHANGED <<varsMerge, varsScan>>

Spec == Init /\ [][Next]_vars

\* a step of the run that is under way
RunStep == pc # "Idle" /\ Next

\* the application when every request is answered or raises (the asset
\* requests carry timeout=30, lines 96 and 109) and every call of the
\* detector returns: a run that is under way takes its next step
SpecLive == Spec /\ WF_vars(RunStep)

\* the outcomes of a detector call when every annotated image can be saved
SavingVerdicts == {"watermark", "clean", "skipped"}

\* the application, and the pipeline run by callers that do not clear the
\* data of earlier runs; the documents are well formed and the output
\* directory is writable
NextRerun ==
    \/ \E figma_file_key, figma_access_token \in {"", "given"} :
            AppRunMissingConfig(figma_file_key, figma_access_token)
                /\ UNCHANGED <<varsMerge, varsScan>>
    \/ \E b \in 1..MaxBatchSize : AppRun(b) /\ UNCHANGED <<varsMerge, varsScan>>
    \/ \E b \in 1..MaxBatchSize : DirectRun(b) /\ UNCHANGED <<varsMerge, varsScan>>
    \/ ClearResults /\ UNCHANGED <<varsMerge, varsScan>>
    \/ \E doc \in PipelineDocuments :
            DocumentResponse(OkResponse(doc)) /\ UNCHANGED <<varsMerge, varsScan>>
    \/ \E resp \in DocErrorResponses :
            DocumentResponse(resp) /\ UNCHANGED <<varsMerge, varsScan>>
    \/ FetchFailed /\ UNCHANGED <<varsMerge, varsScan>>
    \/ \E order \in DistinctSeqs(Refs, MaxRefs) :
            Scanned(order) /\ UNCHANGED <<varsMerge, varsScan>>
    \/ StartBatch /\ UNCHANGED <<varsMerge, varsScan>>
    \/ \E k \in 1..Len(tasks) : \E resp \in Responses(FirstStatuses) :
            FirstResponse(k, resp) /\ UNCHANGED <<varsMerge, varsScan>>
    \/ \E k \in 1..Len(tasks) : \E resp \in Responses(FinalStatuses) :
            S3Response(k, resp) /\ UNCHANGED <<varsMerge, varsScan>>
    \/ \E k \in 1..Len(tasks) : RequestRaises(k) /\ UNCHANGED <<varsMerge, varsScan>>
    \/ Gathered /\ UNCHANGED <<varsMerge, varsScan>>
    \/ SkipDetection /\ UNCHANGED <<varsMerge, varsScan>>
    \/ \E verdict \in [1..Min(Len(downloaded_paths), Len(batch)) -> SavingVerdicts] :
          \E write \in WriteOutcomes :
            Detect(verdict, write) /\ UNCHANGED <<varsMerge, varsScan>>
    \/ Summarize /\ UNCHANGED <<varsMerge, varsScan>>

SpecRerun == Init /\ [][NextRerun]_vars

InitMergeOnly == InitMerge /\ InitPipe /\ ScanIdle

NextMerge ==
    \/ MergeOnce /\ UNCHANGED <<varsPipe, varsScan>>
    \/ MergeAgain /\ UNCHANGED <<varsPipe, varsScan>>
    \/ MergeMerged /\ UNCHANGED <<varsPipe, varsScan>>

SpecMerge == InitMergeOnly /\ [][NextMerge]_vars

InitScanOnly == InitScan /\ InitPipe /\ MergeIdle

NextScan == Scan /\ UNCHANGED <<varsPipe, varsMerge>>

SpecScan == InitScanOnly /\ [][NextScan]_vars

\* the scanner on malformed documents
InitMalformedOnly == InitMalformed /\ InitPipe /\ MergeIdle

SpecMalformed == InitMalformedOnly /\ [][NextScan]_vars

\* the orchestrator on long reference lists while the network is down: the
\* document holds n frames below its root, each with an image of its own
LongList(n) == [k \in 1..n |-> "r" \o ToString(k)]

LongFrame(k, image_ref) ==
    [id |-> "n" \o ToString(k), name |-> "Frame", type |-> "FRAME",
     fills |-> <<ImageFill(image_ref)>>, children |-> <<>>]

LongDocument(n) ==
    [k \in 1..(n + 1) |->
        IF k = 1
        THEN [id |-> "n0", name |-> "Document", type |-> "DOCUMENT",
              children |-> [j \in 1..n |-> j + 1]]
        ELSE LongFrame(k - 1, LongList(n)[k - 1])]

\* what extract_image_nodes finds in LongDocument(n): every frame once, under
\* its own reference
LongScan(n) ==
    [refs |-> Range(LongList(n)),
     map  |-> [r \in Range(LongList(n)) |->
                LET k == CHOOSE j \in 1..n : LongList(n)[j] = r
                IN  <<[node_id |-> LongFrame(k, r).id, name |-> LongFrame(k, r).name,
                       path |-> "/Document/Frame"]>>],
     raised |-> FALSE]

\* lines 188-282 on LongDocument(n)
ScannedLong(n) ==
    /\ file_response.status_code = 200
    /\ file_response.document = LongDocument(n)
    /\ ScanReturned(LongList(n), LongScan(n))

NextBatch ==
    \/ \E b \in 1..MaxChunk : DirectRun(b) /\ UNCHANGED <<varsMerge, varsScan>>
    \/ \E n \in 0..MaxListLen :
            DocumentResponse(OkResponse(LongDocument(n)))
                /\ UNCHANGED <<varsMerge, varsScan>>
    \/ \E n \in 0..MaxListLen :
            ScannedLong(n) /\ UNCHANGED <<varsMerge, varsScan>>
    \/ StartBatch /\ UNCHANGED <<varsMerge, varsScan>>
    \/ AllRequestsRaise /\ UNCHANGED <<varsMerge, varsScan>>
    \/ Gathered /\ UNCHANGED <<varsMerge, varsScan>>
    \/ SkipDetection /\ UNCHANGED <<varsMerge, varsScan>>
    \/ Summarize /\ UNCHANGED <<varsMerge, varsScan>>

SpecBatch == Init /\ [][NextBatch]_vars

(***************************************************************************)
(* Properties of the asset downloader (under Spec).                        *)
(***************************************************************************)
Settled(k) == tasks[k].at = "done" /\ ~tasks[k].raised

C2_NoRetryOnOtherStatus ==
    [][\A k \in 1..Len(tasks) :
          (/\ pc = "Downloading" /\ pc' = "Downloading"
           /\ tasks[k].at # "done"
           /\ tasks'[k].at = "done" /\ ~tasks'[k].raised
           /\ tasks'[k].status \notin ({200} \cup RetryableStatuses))
          => (/\ tasks'[k].attempts = 1
              /\ tasks'[k].path = None
              /\ input_dir' = input_dir)]_vars

\* C2 witness: a download was answered 404 and is settled after one attempt,
\* and the working directory holds no file.
C2_Witness ==
    \E k \in 1..Len(tasks) :
        /\ Settled(k) /\ tasks[k].status = 404
        /\ tasks[k].attempts = 1 /\ tasks[k].path = None
        /\ input_dir = {}

(***************************************************************************)
(* Properties of the batch scheduler (under Spec; C10 under SpecBatch).     *)
(***************************************************************************)
\* C3 as stated: between two batches (batch i is through its detection step,
\* batch i+1 has not started its downloads) input_images holds no file.
C3_WorkingDirEmptyBetweenBatches ==
    (pc = "Loop" /\ 0 < i /\ i < Len(image_refs)) => input_dir = {}

\* C4 as stated: every entry run_inference builds records the reference id
\* of the image file that was scored, input_images/{imageRef}.png; hence no
\* reference whose download failed gets an entry.
C4_EntryCarriesScoredRef ==
    \A p \in scored : p[1] = InputPath(p[2])

\* C9: result.json holds at most one entry per imageRef.
C9_OneEntryPerRef ==
    \A a, b \in 1..Len(result_json) :
        result_json[a].imageRef = result_json[b].imageRef => a = b

\* C9 witness: in a second run that did not clear the data, "r1" was scored
\* again although result.json already held entries for "r1" and "r2" (the
\* entry of "r2", not scored in this run, follows that of "r1").
C9_Witness ==
    /\ runs = 2 /\ pc = "Loop"
    /\ scored = {<<InputPath("r1"), "r1">>}
    /\ Len(result_json) = 2
    /\ result_json[1].imageRef = "r1"
    /\ result_json[2].imageRef = "r2"

RECURSIVE Concat(_)
Concat(ss) == IF ss = <<>> THEN <<>> ELSE Head(ss) \o Concat(Tail(ss))

\* the least m with m * b >= n
CeilDiv(n, b) == CHOOSE m \in 0..n : m * b >= n /\ \A j \in 0..(m - 1) : j * b < n

\* C10: the batches cut so far are consecutive chunks of image_refs in the
\* original order, each of exactly batch_size references except that the
\* last chunk of the list may hold fewer (at least 1); when the loop ends
\* there are ceil(n / batch_size) of them and their concatenation is the
\* list.
C10_BatchPartition ==
    LET n == Len(image_refs)
        m == Len(batches_done)
    IN  pc \in {"Loop", "Downloading", "Downloaded"} =>
            /\ Concat(batches_done) = SubSeq(image_refs, 1, Min(m * batch_size, n))
            /\ \A k \in 1..m :
                  /\ 1 <= Len(batches_done[k])
                  /\ Len(batches_done[k]) <= batch_size
                  /\ (k * batch_size <= n) => Len(batches_done[k]) = batch_size
            /\ (pc = "Loop" /\ i >= n) =>
                  /\ m = CeilDiv(n, batch_size)
                  /\ Concat(batches_done) = image_refs
                  /\ m = TotalBatches(n, batch_size)

\* C10 witness: 23 references in batches of 10 were cut into chunks of 10, 10
\* and 3.
C10_Witness ==
    /\ pc = "Loop" /\ i >= Len(image_refs)
    /\ Len(image_refs) = 23 /\ batch_size = 10
    /\ [k \in 1..Len(batches_done) |-> Len(batches_done[k])] = <<10, 10, 3>>

(***************************************************************************)
(* Properties of the result merger (under SpecMerge).                      *)
(***************************************************************************)
\* C7: merging is idempotent: merging the same new entries a second time, or
\* merging the merged list into the original list, gives the merged list
\* again.
C7_MergeIdempotent ==
    merges \in {"again", "remerged"} => merged = previous

\* C7 witness: the first merge dropped an entry and added one, and the same
\* entries were merged again.
C7_Witness ==
    /\ merges = "again"
    /\ Len(stored) > 0
    /\ Len(previous) > Len(stored)
    /\ Len(previous) < Len(stored) + Len(incoming)

\* C8: the merged list is the existing list, every entry unchanged and at its
\* position, followed by the new entries whose imageRef the existing list
\* did not hold, in their order.
C8_MergeKeepsExisting ==
    merges = "once" =>
        LET new == SelectSeq(incoming,
                      LAMBDA e : \A k \in 1..Len(stored) :
                                    stored[k].imageRef # e.imageRef)
        IN  /\ Len(merged) = Len(stored) + Len(new)
            /\ \A k \in 1..Len(stored) : merged[k] = stored[k]
            /\ \A k \in 1..Len(new) : merged[Len(stored) + k] = new[k]

\* C8 witness: a new entry had the imageRef of an existing entry and another
\* verdict, and the existing entry is still the first of the merged list.
C8_Witness ==
    /\ merges = "once"
    /\ Len(stored) > 0
    /\ \E k \in 1..Len(incoming) :
          /\ incoming[k].imageRef = stored[1].imageRef
          /\ incoming[k].status # stored[1].status
    /\ merged[1] = stored[1]
    /\ Len(merged) > Len(stored)

(***************************************************************************)
(* Properties of the document scanner (under SpecScan).                    *)
(***************************************************************************)
IsImageFillWithRef(fill) == fill.type = "IMAGE" /\ "imageRef" \in DOMAIN fill

\* the reference ids carried by any IMAGE fill of any node of the tree
AllImageFillRefs(doc) ==
    UNION {{doc[n].fills[j].imageRef :
                j \in {h \in 1..Len(doc[n].fills) :
                          IsImageFillWithRef(doc[n].fills[h])}} :
           n \in 1..Len(doc)}

\* the positions of the first IMAGE fill of a node (none or one)
FirstImageFillAt(node) ==
    {j \in 1..Len(node.fills) :
        /\ node.fills[j].type = "IMAGE"
        /\ \A h \in 1..(j - 1) : node.fills[h].type # "IMAGE"}

\* the nodes whose first IMAGE fill carries a reference id, among the nodes
\* of the types the scanner inspects
MatchingNodes(doc) ==
    {n \in 1..Len(doc) :
        /\ doc[n].type \in EligibleTypes
        /\ \E j \in FirstImageFillAt(doc[n]) : "imageRef" \in DOMAIN doc[n].fills[j]}

FirstImageRef(node) ==
    node.fills[CHOOSE j \in FirstImageFillAt(node) : TRUE].imageRef

\* the mapping entries, over all reference ids, that name the node
EntriesOfNode(map, id) ==
    UNION {{<<r, k>> : k \in {h \in 1..Len(map[r]) : map[r][h].node_id = id}} :
           r \in DOMAIN map}

\* C5 as stated: the references returned are exactly the reference ids that
\* IMAGE fills of the tree's nodes carry, each once.
C5_AllImageFillRefsReturned ==
    scanned =>
        /\ Range(unique_refs) = AllImageFillRefs(document)
        /\ NoDup(unique_refs)

\* C5 amended: the references returned are exactly the reference ids carried
\* by the first IMAGE fill of the nodes of type FRAME, COMPONENT, INSTANCE,
\* IMAGE or RECTANGLE, each once.
C5_FirstImageFillRefsReturned ==
    scanned =>
        /\ Range(unique_refs) =
              {FirstImageRef(document[n]) : n \in MatchingNodes(document)}
        /\ NoDup(unique_refs)

\* C5 witness: two nodes share a reference, another reference is found too,
\* and both are returned once.
C5_Witness ==
    /\ scanned
    /\ Len(unique_refs) = 2
    /\ \E a, b \in MatchingNodes(document) :
          a # b /\ FirstImageRef(document[a]) = FirstImageRef(document[b])

\* C6: every node id is named by at most one mapping entry, and a node of an
\* inspected type whose first IMAGE fill carries a reference id is named by
\* exactly one, kept under that reference id.
C6_OneEntryPerNode ==
    scanned =>
        \A n \in 1..Len(document) :
            LET es == EntriesOfNode(image_to_nodes_map, document[n].id)
            IN  /\ Cardinality(es) <= 1
                /\ n \in MatchingNodes(document) =>
                      \E e \in es : e[1] = FirstImageRef(document[n])

\* C6 witness: a node with two IMAGE fills ("r1", then "r2") has exactly one
\* mapping entry, under "r1".
C6_Witness ==
    /\ scanned
    /\ \E n \in 1..Len(document) :
          /\ document[n].type \in EligibleTypes
          /\ document[n].fills = <<ImageFill("r1"), ImageFill("r2")>>
          /\ Cardinality(EntriesOfNode(image_to_nodes_map, document[n].id)) = 1
          /\ \E k \in 1..Len(image_to_nodes_map["r1"]) :
                image_to_nodes_map["r1"][k].node_id = document[n].id


(***************************************************************************)
(* Properties of a whole run (under Spec).                                 *)
(***************************************************************************)
\* the children of the root that are of an inspected type and whose first
\* IMAGE fill carries image_ref, in the order the walk visits them
NodesCarrying(doc, image_ref) ==
    SelectSeq(ChildrenOf(doc[1]),
              LAMBDA n : /\ n \in MatchingNodes(doc)
                         /\ FirstImageRef(doc[n]) = image_ref)

\* how many times x occurs in the sequence s
Occurrences(s, x) == Cardinality({k \in 1..Len(s) : s[k] = x})

\* the entries of result.json recorded under image_ref
EntriesUnder(results, image_ref) ==
    {k \in 1..Len(results) : results[k].imageRef = image_ref}

\* C11 as stated, for the nodes of the types the scanner inspects: when k >= 2
\* nodes carry the reference r, the scan returns r once and writes k mapping
\* entries under r, one per node in visit order; and when r.png was downloaded
\* and scored and result.json was written, result.json holds exactly one
\* entry with imageRef r.
C11_SharedRefEndToEnd ==
    [][\A r \in Refs :
          /\ (/\ pc = "Fetched" /\ pc' = "Loop"
              /\ Len(NodesCarrying(file_response.document, r)) >= 2)
             => LET doc == file_response.document
                    nodes == NodesCarrying(doc, r)
                IN  /\ Occurrences(image_refs', r) = 1
                    /\ r \in DOMAIN node_mappings'
                    /\ [k \in 1..Len(node_mappings'[r]) |-> node_mappings'[r][k].node_id]
                          = [k \in 1..Len(nodes) |-> doc[nodes[k]].id]
          /\ (/\ pc = "Downloaded"
              /\ r \in DOMAIN node_mappings /\ Len(node_mappings[r]) >= 2
              /\ InputPath(r) \in Range(downloaded_paths)
              /\ \E p \in scored' : p[1] = InputPath(r)
              /\ ~result_exists /\ result_exists' /\ ~result_corrupt')
             => Cardinality(EntriesUnder(result_json', r)) = 1]_vars

(***************************************************************************)
(* Properties of the downloads of one batch (under Spec).                  *)
(***************************************************************************)
\* download k returns in this step without a path
FailsNow(k) ==
    /\ pc = "Downloading"
    /\ tasks[k].at # "done"
    /\ Len(tasks') = Len(tasks)
    /\ tasks'[k].at = "done"
    /\ tasks'[k].path = None

\* C12: a step in which a download fails (a status that is no success, or a
\* request that raises) returns None for that download alone: every sibling
\* download is left as it was, the batch is still downloading and no error
\* ends the run; and the batch goes on only once every download has
\* returned.
C12_FailureIsolated ==
    [][/\ \A k \in 1..Len(tasks) :
             FailsNow(k) =>
                /\ \A j \in 1..Len(tasks) : j # k => tasks'[j] = tasks[j]
                /\ settled' = Append(settled, [task |-> k, path |-> None])
                /\ pc' = "Downloading"
                /\ UNCHANGED <<terminal, st_error, batch, input_dir>>
       /\ (pc = "Downloading" /\ pc' # "Downloading") =>
             /\ \A k \in 1..Len(tasks) : tasks[k].at = "done"
             /\ Len(settled) = Len(batch)
             /\ pc' = "Downloaded"]_vars

\* C12 witness: the first download of a batch of 2 raised while its sibling
\* was in flight, and the sibling then returned the path of its file.
C12_Witness ==
    /\ pc = "Downloading"
    /\ Len(tasks) = 2
    /\ tasks[1].raised
    /\ settled = <<[task |-> 1, path |-> None],
                   [task |-> 2, path |-> InputPath(tasks[2].ref)]>>

\* the positions in the batch of the downloads that returned a path
Succeeded == {settled[n].task : n \in {m \in 1..Len(settled) : settled[m].path # None}}

\* the references of the batch whose download succeeded, in batch order
SucceededRefs == SelectSeq(batch, LAMBDA r : \E k \in Succeeded : batch[k] = r)

\* C13: whatever the order in which the downloads of a batch returned, the
\* paths handed on to the detector are those of the references of the batch
\* whose download succeeded, in the order of the batch.
C13_PathsInBatchOrder ==
    pc = "Downloaded" =>
        /\ {settled[n].task : n \in 1..Len(settled)} = 1..Len(batch)
        /\ downloaded_paths =
              [k \in 1..Len(SucceededRefs) |-> InputPath(SucceededRefs[k])]

\* C13 witness: the second download of a batch returned before the first,
\* both with a file, and the paths are in batch order.
C13_Witness ==
    /\ pc = "Downloaded"
    /\ Len(settled) = 2
    /\ settled[1].task = 2 /\ settled[1].path # None
    /\ settled[2].task = 1 /\ settled[2].path # None
    /\ downloaded_paths = <<InputPath(batch[1]), InputPath(batch[2])>>

\* the downloads of this step's new batch are created
StartsDownloads == tasks = <<>> /\ tasks' # <<>>

\* C14: downloads exist only while the orchestrator waits for them, and they
\* are those of the batch cut last; the downloads of a batch are created only
\* when no download is left and every batch cut before has been through its
\* detection step (or skipped it); and the detector is called only between
\* the downloads of one batch and the next, at most once per batch.
C14_BatchesSequential ==
    /\ [](/\ pc # "Downloading" => tasks = <<>>
          /\ pc = "Downloading" =>
                /\ batches_done # <<>>
                /\ [k \in 1..Len(tasks) |-> tasks[k].ref] =
                      batches_done[Len(batches_done)]
          /\ detector_calls <= Len(batches_done))
    /\ [][/\ StartsDownloads =>
                /\ pc = "Loop" /\ settled = <<>>
                /\ downloaded_paths' = <<>>
                /\ i = batch_size * Len(batches_done)
                /\ Len(batches_done') = Len(batches_done) + 1
          /\ detector_calls' = detector_calls + 1 =>
                /\ pc = "Downloaded" /\ tasks = <<>> /\ tasks' = <<>>
                /\ i' = batch_size * Len(batches_done)]_vars

\* C14 witness: the downloads of the second batch are in flight after the
\* detector was called once, for the first batch.
C14_Witness ==
    /\ pc = "Downloading"
    /\ Len(batches_done) = 2
    /\ detector_calls = 1
    /\ \E k \in 1..Len(tasks) : tasks[k].at = "s3"

(***************************************************************************)
(* Properties of the failures of a run (under Spec).                       *)
(***************************************************************************)
\* C15: when the document API answered another status than 200, the next
\* step ends the run as Failed with an error that names the status and the
\* body of the answer; no scan result is kept, no batch is cut, downloaded or
\* scored, and node_mappings.json, result.json and the image directories are
\* left as they were.
C15_FetchFailureAbortsRun ==
    [][(pc = "Fetched" /\ file_response.status_code # 200) =>
          /\ terminal' = "Failed"
          /\ pc' = "Idle"
          /\ st_error' = "Pipeline error: Failed to get Figma file: "
                            \o ToString(file_response.status_code)
                            \o " - " \o file_response.text
          /\ image_refs' = <<>> /\ batches_done' = <<>> /\ tasks' = <<>>
          /\ detector_calls' = 0 /\ scored' = {}
          /\ UNCHANGED <<mapping_exists, node_mappings, result_exists,
                         result_corrupt, result_json, input_dir, output_dir>>]_vars

\* C15 witness: the document API answered 403 "Forbidden" and the run ended
\* as Failed with that error, without a mapping file or a result store.
C15_Witness ==
    /\ pc = "Idle"
    /\ terminal = "Failed"
    /\ st_error = "Pipeline error: Failed to get Figma file: 403 - Forbidden"
    /\ ~mapping_exists
    /\ ~result_exists
    /\ input_dir = {} /\ output_dir = {}

\* the entries a reader of result.json gets before the step of the
\* orchestrator is ExistingResults; this is what it gets after the step
ResultsAfterStep ==
    IF result_exists' /\ ~result_corrupt' THEN result_json' ELSE <<>>

\* every entry of the list before is in the list after, unchanged and at its
\* position
KeptIn(before, after) ==
    /\ Len(before) <= Len(after)
    /\ \A k \in 1..Len(before) : after[k] = before[k]

\* C16 as stated: when an exception raised while a batch is processed ends
\* the run as Failed, result.json still holds, unchanged, every entry the
\* earlier batches merged.
C16_FailedBatchKeepsMergedResults ==
    [][(pc \in {"Downloading", "Downloaded"} /\ terminal' = "Failed") =>
          KeptIn(ExistingResults, ResultsAfterStep)]_vars

\* C17: the step that reports the missing file key or access token changes
\* nothing else: no run is started and no pipeline constructed, no request is
\* made, and result.json, node_mappings.json and both image directories are
\* left as they were.
C17_ConfigCheckHasNoSideEffect ==
    [][st_error' = "Please provide both Figma File Key and Access Token" =>
          /\ pc = "Idle" /\ pc' = "Idle"
          /\ UNCHANGED <<runs, terminal, file_response, tasks, batches_done,
                         result_exists, result_corrupt, result_json,
                         mapping_exists, node_mappings, input_dir, output_dir,
                         image_refs, detector_calls>>]_vars

\* C17 witness: after a run that left a result store, a mapping file and
\* files in both image directories, the button was pressed without the
\* credentials; the error is shown and the data of the run is still there.
C17_Witness ==
    /\ st_error = "Please provide both Figma File Key and Access Token"
    /\ pc = "Idle"
    /\ runs = 1
    /\ terminal = "Done"
    /\ result_exists /\ result_json # <<>>
    /\ mapping_exists
    /\ input_dir # {} /\ output_dir # {}

(***************************************************************************)
(* Properties of a download that ends in a 200 (under Spec).               *)
(***************************************************************************)
\* the content types that contain "image", among those of the model
ImageContentTypes == {"image/png", "image/jpeg", "image/gif"}

\* the extension C18 gives to a content type
ExtensionFor(content_type) ==
    CASE content_type = "image/png" -> ".png"
      [] content_type \in {"image/jpeg", "image/jpg"} -> ".jpg"
      [] content_type = "image/webp" -> ".webp"
      [] OTHER -> ".png"

\* download k returns in this step on a 200 received at the request `at`
EndsIn200(k, at) ==
    /\ pc = "Downloading" /\ pc' = "Downloading"
    /\ tasks[k].at = at
    /\ tasks'[k].at = "done" /\ ~tasks'[k].raised
    /\ tasks'[k].status = 200

StepOfRun == (pc = "Idle" /\ runs' = runs + 1) \/ pc # "Idle"

\* C19 as stated: result.json is append-only over runs: every entry recorded
\* is still there, unchanged, after every step of a later run; only the clear
\* operation removes entries.
C19_AppendOnlyAcrossRuns ==
    [][StepOfRun =>
          \A e \in Range(ExistingResults) : e \in Range(ResultsAfterStep)]_vars

(***************************************************************************)
(* Properties of a batch without a download (under Spec).                  *)
(***************************************************************************)
\* C20: the step after a batch of which no download succeeded does not call
\* the detector and leaves result.json, the output directory and the
\* counters as they were; it moves the loop on by one batch, and the step
\* after it cuts the next batch, or ends the run with the summary when the
\* batch was the last.
C20_EmptyBatchSkipsDetection ==
    [][/\ (pc = "Downloaded" /\ downloaded_paths = <<>>) =>
             /\ UNCHANGED <<detector_calls, scored, result_exists,
                            result_corrupt, result_json, output_dir,
                            total_processed, successful_batches, terminal,
                            st_error, image_refs, batches_done>>
             /\ i' = i + batch_size
             /\ pc' = "Loop"
       /\ (pc = "Loop" /\ i < Len(image_refs)) =>
             /\ pc' = "Downloading"
             /\ batch' = SubSeq(image_refs, i + 1,
                                Min(i + batch_size, Len(image_refs)))
       /\ (pc = "Loop" /\ i >= Len(image_refs)) =>
             /\ pc' = "Idle"
             /\ terminal' \in {"Done", "Failed"}]_vars

\* C20 witness: no download of the first batch succeeded, the detector was
\* not called and there is no result store, and the downloads of the second
\* batch are in flight.
C20_Witness ==
    /\ pc = "Downloading"
    /\ Len(batches_done) = 2
    /\ detector_calls = 0
    /\ ~result_exists
    /\ input_dir = {} /\ output_dir = {}
    /\ i = batch_size

(***************************************************************************)
(* Properties of the progress report (under Spec).                         *)
(***************************************************************************)
\* the batches of the run that are through downloads, detection and merge
CompletedBatches ==
    IF pc \in {"Downloading", "Downloaded"} THEN Len(batches_done) - 1
                                            ELSE Len(batches_done)

\* C21 as stated: the progress bar shows batch_num / total_batches only once
\* batch batch_num is through its downloads, detection and merge; so it does
\* not show total_batches / total_batches while the last batch is being
\* processed.
C21_ProgressAfterBatch ==
    (pc \in {"Loop", "Downloading", "Downloaded"} /\ current_progress.shown) =>
        current_progress.batch_num <= CompletedBatches

(***************************************************************************)
(* Properties of the failures of the detector (under Spec).                *)
(***************************************************************************)
\* C22 as stated: an image of a batch whose scoring fails (it cannot be
\* opened, or the prediction or the save raises) gets no entry in
\* result.json, the images of the batch that were scored have one, and the
\* step does not end the run.
C22_FailedImageHasNoEntry ==
    [][(/\ pc = "Downloaded" /\ pc' = "Loop"
        /\ failed_images' # failed_images
        /\ result_exists' /\ ~result_corrupt') =>
          /\ \A p \in failed_images' \ failed_images :
                EntriesUnder(result_json', p[2]) = {}
          /\ terminal' = terminal]_vars

\* C23 as stated: when the write of result.json fails in the merge of a
\* batch, the run ends as Failed with that step, so that no later batch is
\* downloaded or scored, and the entries the earlier batches wrote are still
\* in result.json.
C23_WriteFailureEndsRun ==
    [][(pc = "Downloaded" /\ write_outcome' \in {"open_failed", "truncated"}) =>
          /\ terminal' = "Failed"
          /\ pc' = "Idle"
          /\ KeptIn(ExistingResults, ResultsAfterStep)]_vars

(***************************************************************************)
(* Properties of the end of a run (under Spec; C26 under SpecLive).        *)
(***************************************************************************)
\* the loop is over and the summary of lines 322-329 is about to be logged
AtSummary == pc = "Loop" /\ i >= Len(image_refs)

\* C24 as stated: the counts of the summary add up: the images successfully
\* processed plus the images that failed are the images of the run.
C24_SummaryAddsUp ==
    AtSummary => total_processed + total_failed = Len(image_refs)

\* C25 as stated: a run whose document was fetched and holds no image
\* reference processes no batch and ends as Done, with no pipeline error
\* reported.
C25_NoImagesEndsDone ==
    [][(pc = "Loop" /\ image_refs = <<>>) =>
          /\ pc' = "Idle"
          /\ batches_done' = <<>>
          /\ terminal' = "Done"
          /\ st_error' = None]_vars

\* the k-th chunk of b references of the list
Chunk(refs, k, b) == SubSeq(refs, (k - 1) * b + 1, Min(k * b, Len(refs)))

\* C26: a run that is under way ends, as Done or as Failed; and when it ends
\* as Done, the batches that went through their downloads are the chunks of
\* the reference list, each once and in increasing order, so that every
\* reference was attempted in exactly one batch.
C26_RunEndsAndCoversList ==
    /\ (pc # "Idle") ~> (pc = "Idle" /\ terminal \in {"Done", "Failed"})
    /\ [][(pc = "Loop" /\ terminal' = "Done") =>
             /\ Len(batches_done) = CeilDiv(Len(image_refs), batch_size)
             /\ \A k \in 1..Len(batches_done) :
                   batches_done[k] = Chunk(image_refs, k, batch_size)
             /\ \A r \in Range(image_refs) :
                   Cardinality({k \in 1..Len(batches_done) :
                                   r \in Range(batches_done[k])}) = 1]_vars

\* C26 witness: a run over 2 references ended as Done with both references
\* downloaded and recorded.
C26_Witness ==
    /\ pc = "Idle"
    /\ terminal = "Done"
    /\ input_dir = {InputPath("r1"), InputPath("r2")}
    /\ Len(result_json) = 2

\* the node whose children list names node n
ParentOf(doc, n) == CHOOSE k \in 1..Len(doc) : \E j \in 1..Len(ChildrenOf(doc[k])) : ChildrenOf(doc[k])[j] = n

RECURSIVE PathFromRoot(_, _)

\* the slash-joined names from the root down to node n, a node without a name
\* counting as "unnamed"
PathFromRoot(doc, n) ==
    IF n = 1
    THEN "/" \o NodeName(doc[1])
    ELSE PathFromRoot(doc, ParentOf(doc, n)) \o "/" \o NodeName(doc[n])

\* the nodes of an eligible type whose first fill of type IMAGE carries a
\* reference id, whatever keys the nodes lack
Matched(doc) ==
    {n \in 1..Len(doc) :
        /\ Inspected(doc[n])
        /\ \E j \in 1..Len(doc[n].fills) :
              /\ FillType(doc[n].fills[j]) = "IMAGE"
              /\ "imageRef" \in DOMAIN doc[n].fills[j]
              /\ \A h \in 1..(j - 1) : FillType(doc[n].fills[h]) # "IMAGE"}

\* the mapping has an entry with this name and path
HasEntry(map, name, path) ==
    \E r \in DOMAIN map : \E k \in 1..Len(map[r]) :
        map[r][k].name = name /\ map[r][k].path = path

\* C27: the scan of a document whose nodes lack keys never fails, and every
\* node that matches is recorded with its name, or "unnamed" when it has
\* none, and with the path from the root built from those names, whatever
\* keys the other nodes lack.
C27_MalformedNodesNeverFailScan ==
    /\ scan_error = None
    /\ scanned =>
          \A n \in Matched(document) :
              HasEntry(image_to_nodes_map, NodeName(document[n]),
                       PathFromRoot(document, n))

\* C27 without the nodes that lack their id: the scan returns and records
\* every matching node under its name or the placeholder.
C27_ExceptMissingId ==
    (\A n \in 1..Len(document) : "id" \in DOMAIN document[n]) =>
        /\ scan_error = None
        /\ scanned =>
              \A n \in Matched(document) :
                  HasEntry(image_to_nodes_map, NodeName(document[n]),
                           PathFromRoot(document, n))

\* the position of the first fill of a node that is of type IMAGE and carries
\* a reference id (none or one)
FirstRefFillAt(node) ==
    {j \in 1..Len(node.fills) :
        /\ IsImageFillWithRef(node.fills[j])
        /\ \A h \in 1..(j - 1) : ~IsImageFillWithRef(node.fills[h])}

\* C28: every node of an eligible type that has a fill of type IMAGE with a
\* reference id is recorded under the reference id of the first such fill,
\* also when an IMAGE fill without a reference id comes before it, and
\* whether or not its ancestors matched.
C28_FirstFillWithRefRecorded ==
    scanned =>
        \A n \in 1..Len(document) :
            document[n].type \in EligibleTypes =>
                \A j \in FirstRefFillAt(document[n]) :
                    \E e \in EntriesOfNode(image_to_nodes_map, document[n].id) :
                        e[1] = document[n].fills[j].imageRef

\* C28, the part about the children: a matching node below a node that did
\* not match, and one below a node that matched, are both recorded.
C28_ChildrenVisitedRegardless ==
    scanned =>
        \A n \in MatchingNodes(document) :
            EntriesOfNode(image_to_nodes_map, document[n].id) # {}

\* C29: the application shows "Pipeline completed successfully!" only for a
\* run that ended as Done; for a run that ended as Failed (the document fetch
\* failed, or an exception was raised in a batch) no success message is
\* shown.
C29_SuccessOnlyWhenDone ==
    status_container = CompletedText => terminal = "Done"
=============================================================================
